---------------------------- MODULE Spec2Model ----------------------------
(***************************************************************************)
(* Timelog (obsidian-time-log): the plugin of src/main.ts, lines 1-369.    *)
(*                                                                         *)
(* A line of the document is a sequence of one-character strings; the      *)
(* document is a sequence of lines.  Positions handed to and returned by   *)
(* the editor and by the string helpers are 0-based, as in the source.     *)
(***************************************************************************)
EXTENDS Integers, Sequences, FiniteSets, TLC

(***************************************************************************)
(* JavaScript string helpers used by the plugin.                           *)
(***************************************************************************)
Whitespace == {" ", "\t"}

DigitChars == <<"0", "1", "2", "3", "4", "5", "6", "7", "8", "9">>

DigitSet == {"0", "1", "2", "3", "4", "5", "6", "7", "8", "9"}

DigitVal(c) == (CHOOSE i \in 1..10 : DigitChars[i] = c) - 1

Min(a, b) == IF a < b THEN a ELSE b

\* s.substring(from): the characters from 0-based position `from` on
Drop(s, from) == SubSeq(s, from + 1, Len(s))

\* s.substring(0, n)
Take(s, n) == SubSeq(s, 1, Min(n, Len(s)))

\* s.startsWith(p)
StartsWith(s, p) == Len(s) >= Len(p) /\ SubSeq(s, 1, Len(p)) = p

\* s.indexOf(p, i): 0-based position of the first occurrence at or after i,
\* -1 when absent
RECURSIVE IndexOfFrom(_, _, _)
IndexOfFrom(s, p, i) ==
    IF i + Len(p) > Len(s) THEN -1
    ELSE IF SubSeq(s, i + 1, i + Len(p)) = p THEN i
    ELSE IndexOfFrom(s, p, i + 1)

\* s.indexOf(p)
IndexOf(s, p) == IndexOfFrom(s, p, 0)

\* number of consecutive characters of s from 0-based position i on that
\* belong to set cs
RECURSIVE RunFrom(_, _, _)
RunFrom(s, cs, i) ==
    IF i < Len(s) /\ s[i + 1] \in cs THEN 1 + RunFrom(s, cs, i + 1) ELSE 0

\* number of trailing characters of s that belong to set cs
RECURSIVE TrailRun(_, _)
TrailRun(s, cs) ==
    IF Len(s) > 0 /\ s[Len(s)] \in cs
    THEN 1 + TrailRun(SubSeq(s, 1, Len(s) - 1), cs) ELSE 0

\* s without its first `lead` characters and without trailing whitespace
TrimAfter(s, lead) ==
    IF lead = Len(s) THEN <<>>
    ELSE SubSeq(s, lead + 1, Len(s) - TrailRun(s, Whitespace))

\* s.trim()
Trim(s) == TrimAfter(s, RunFrom(s, Whitespace, 0))

\* s.replace(/\*/g, ''): every `*` removed
RECURSIVE RemoveStars(_)
RemoveStars(s) ==
    IF s = <<>> THEN <<>>
    ELSE (IF s[1] = "*" THEN <<>> ELSE <<s[1]>>) \o RemoveStars(Tail(s))

\* s.replace(/^#+\s*/, '') for an s with `hashes` leading `#`: the leading run
\* of `#`, then the whitespace after it
StripMarkerRun(s, hashes) ==
    IF hashes = 0 THEN s
    ELSE Drop(s, hashes + RunFrom(s, Whitespace, hashes))

StripHeadingMarker(s) == StripMarkerRun(s, RunFrom(s, {"#"}, 0))

\* s.replace(/^[-\s]/g, ''): the pattern is anchored and has no quantifier,
\* so at most the first character is removed
StripListMarker(s) ==
    IF Len(s) > 0 /\ s[1] \in ({"-"} \cup Whitespace) THEN Drop(s, 1) ELSE s

\* the part of s before 0-based position i, all of s when i < 0
BeforeIndex(s, i) == IF i < 0 THEN s ELSE Take(s, i)

\* s.split('|')[0]
BeforePipe(s) == BeforeIndex(s, IndexOf(s, <<"|">>))

\* the text between the `[[` at 0-based position open and the `]]` at close
LinkBetween(s, open, close) ==
    IF open < 0 \/ close < 0 THEN [found |-> FALSE, inner |-> <<>>]
    ELSE [found |-> TRUE, inner |-> SubSeq(s, open + 3, close)]

\* the first `]]` that closes a `[[` at position open with a non-empty inner text
LinkClose(s, open) == IF open < 0 THEN -1 ELSE IndexOfFrom(s, <<"]", "]">>, open + 3)

LinkAt(s, open) == LinkBetween(s, open, LinkClose(s, open))

\* content.match(/\[\[(.+?)\]\]/): the capture group of the leftmost match
\* (the shortest non-empty inner text from the leftmost `[[`; a `[[` with no
\* `]]` after it leaves none for a later `[[` either); found = FALSE when
\* there is no match
LinkInner(s) == LinkAt(s, IndexOf(s, <<"[", "[">>))

(***************************************************************************)
(* The moment.js calls the plugin makes: format(pattern), the forgiving    *)
(* parse moment(text, pattern) and the strict parse                        *)
(* moment(text, pattern, true), with isValid() and isAfter().  Patterns    *)
(* are built from the tokens YYYY, MM, DD, HH, mm and literal characters.  *)
(***************************************************************************)
IsFormatToken(t) == t \in {"YYYY", "MM", "DD", "HH", "mm"}

\* the token a pattern starts with: a format token, else its first character
FirstToken(fmt) ==
    IF StartsWith(fmt, <<"Y", "Y", "Y", "Y">>) THEN "YYYY"
    ELSE IF StartsWith(fmt, <<"M", "M">>) THEN "MM"
    ELSE IF StartsWith(fmt, <<"D", "D">>) THEN "DD"
    ELSE IF StartsWith(fmt, <<"H", "H">>) THEN "HH"
    ELSE IF StartsWith(fmt, <<"m", "m">>) THEN "mm"
    ELSE fmt[1]

TokenLen(t) == IF t = "YYYY" THEN 4 ELSE IF IsFormatToken(t) THEN 2 ELSE 1

\* format.match(formattingTokens): the pattern cut into tokens, left to right
RECURSIVE TokenizeFrom(_, _)
TokenizeFrom(fmt, t) ==
    IF Len(fmt) = TokenLen(t) THEN <<t>>
    ELSE <<t>> \o TokenizeFrom(Drop(fmt, TokenLen(t)), FirstToken(Drop(fmt, TokenLen(t))))

Tokenize(fmt) == IF fmt = <<>> THEN <<>> ELSE TokenizeFrom(fmt, FirstToken(fmt))

\* the shortest and longest digit run a token's parse regex accepts:
\* match4 / match2 when strict, match1to4 / match1to2 otherwise
TokenMinDigits(t, strict) ==
    IF strict THEN (IF t = "YYYY" THEN 4 ELSE 2) ELSE 1

TokenMaxDigits(t) == IF t = "YYYY" THEN 4 ELSE 2

\* the leftmost run of at least `least` digits at or after 0-based position i,
\* cut to `most` digits: [pos, len], pos = -1 when there is none
RECURSIVE MatchDigitsFrom(_, _, _, _, _)
MatchDigitsFrom(str, i, run, least, most) ==
    IF i >= Len(str) THEN [pos |-> -1, len |-> 0]
    ELSE IF run >= least THEN [pos |-> i, len |-> Min(most, run)]
    ELSE MatchDigitsFrom(str, i + run + 1, RunFrom(str, DigitSet, i + run + 1),
                         least, most)

\* a literal token's match: the first occurrence of the character
MatchLiteral(i) == [pos |-> i, len |-> IF i < 0 THEN 0 ELSE 1]

\* string.match(getParseRegexForToken(token)): the 0-based position and the
\* length of the leftmost match in str; pos = -1 when nothing matches
MatchToken(t, str, strict) ==
    IF IsFormatToken(t)
    THEN MatchDigitsFrom(str, 0, RunFrom(str, DigitSet, 0),
                         TokenMinDigits(t, strict), TokenMaxDigits(t))
    ELSE MatchLiteral(IndexOf(str, <<t>>))

\* toInt(input)
RECURSIVE ToInt(_)
ToInt(s) ==
    IF s = <<>> THEN 0 ELSE ToInt(SubSeq(s, 1, Len(s) - 1)) * 10 + DigitVal(s[Len(s)])

\* index of a token's unit in the parsed array: YEAR, MONTH, DATE, HOUR, MINUTE
UnitOf(t) ==
    CASE t = "YYYY" -> 1
      [] t = "MM"   -> 2
      [] t = "DD"   -> 3
      [] t = "HH"   -> 4
      [] t = "mm"   -> 5

\* the year a YYYY token stores (parseTwoDigitYear for two digits)
YearValue(digits, n) ==
    IF digits = 2 THEN n + (IF n > 68 THEN 1900 ELSE 2000) ELSE n

\* addTimeToArrayFromToken: the value a parsed token stores
TokenValue(t, input) ==
    CASE t = "YYYY" -> YearValue(Len(input), ToInt(input))
      [] t = "MM"   -> ToInt(input) - 1
      [] OTHER      -> ToInt(input)

NoFields == [u \in 1..5 |-> 0]

ParseStart(text) ==
    [a |-> NoFields, has |-> {}, empty |-> TRUE, unused |-> 0, parsed |-> 0,
     rest |-> text]

\* one round of configFromStringAndFormat's loop: token t matched in acc.rest
\* at m consumes the match and skips what precedes it
ParseStep(t, m, strict, acc) ==
    IF m.pos < 0
    THEN [acc EXCEPT !.unused = @ + (IF IsFormatToken(t) \/ strict THEN 1 ELSE 0)]
    ELSE IF IsFormatToken(t)
    THEN [a      |-> [acc.a EXCEPT ![UnitOf(t)] =
                         TokenValue(t, SubSeq(acc.rest, m.pos + 1, m.pos + m.len))],
          has    |-> acc.has \cup {UnitOf(t)},
          empty  |-> FALSE,
          unused |-> acc.unused,
          parsed |-> acc.parsed + m.len,
          rest   |-> Drop(acc.rest, m.pos + m.len)]
    ELSE [acc EXCEPT !.parsed = @ + m.len, !.rest = Drop(acc.rest, m.pos + m.len)]

\* configFromStringAndFormat's loop over the tokens
RECURSIVE ParseTokens(_, _, _)
ParseTokens(tokens, strict, acc) ==
    IF tokens = <<>> THEN acc
    ELSE ParseTokens(Tail(tokens), strict,
             ParseStep(Head(tokens), MatchToken(Head(tokens), acc.rest, strict),
                       strict, acc))

IsLeapYear(y) == (y % 4 = 0 /\ y % 100 # 0) \/ y % 400 = 0

\* daysInMonth(year, month), month 0-based
DaysInMonth(y, m) ==
    IF m = 1 THEN (IF IsLeapYear(y) THEN 29 ELSE 28)
    ELSE IF m \in {3, 5, 8, 10} THEN 30 ELSE 31

\* the first of YEAR, MONTH, DATE that was parsed, 4 when none was
FirstDateUnit(has) ==
    IF 1 \in has THEN 1 ELSE IF 2 \in has THEN 2 ELSE IF 3 \in has THEN 3 ELSE 4

\* configFromArray: units before the first parsed one default to the current
\* date, the units after it to zero (the day of the month to 1)
DefaultFields(a, has, today) ==
    [u \in 1..5 |->
        IF u \in has THEN a[u]
        ELSE IF u < FirstDateUnit(has) THEN today[u]
        ELSE IF u = 3 THEN 1 ELSE 0]

\* checkOverflow
Overflows(a) ==
    \/ a[2] < 0 \/ a[2] > 11
    \/ a[3] < 1 \/ a[3] > DaysInMonth(a[1], a[2])
    \/ a[4] < 0 \/ a[4] > 24 \/ (a[4] = 24 /\ a[5] # 0)
    \/ a[5] < 0 \/ a[5] > 59

\* valueOf(): a number ordered as the instants are
InstantValue(a) == (((a[1] * 12 + a[2]) * 32 + a[3]) * 25 + a[4]) * 60 + a[5]

\* isValid() of the parse that ended as r with the fields a
ParseValid(r, a, textLen, strict) ==
    /\ ~Overflows(a)
    /\ ~r.empty
    /\ (strict => (textLen - r.parsed = 0 /\ r.unused = 0))

ParseResult(valid, a) == [valid |-> valid, value |-> IF valid THEN InstantValue(a) ELSE 0]

ParseVerdict(r, a, textLen, strict) == ParseResult(ParseValid(r, a, textLen, strict), a)

ParseOutcome(r, textLen, strict, today) ==
    ParseVerdict(r, DefaultFields(r.a, r.has, today), textLen, strict)

\* moment(text, format, strict): [valid, value].  An empty format makes moment
\* fall back to its ISO / RFC 2822 / Date parsers, which accept none of the
\* texts the plugin hands over with an empty format (the empty string).
MomentParse(text, format, strict, today) ==
    IF format = <<>> THEN [valid |-> FALSE, value |-> 0]
    ELSE ParseOutcome(ParseTokens(Tokenize(format), strict, ParseStart(text)),
                      Len(text), strict, today)

\* two decimal digits of n
Digits2(n) == <<DigitChars[((n \div 10) % 10) + 1], DigitChars[(n % 10) + 1]>>

\* what format() writes for token t of the instant with the fields a
FormatToken(t, a) ==
    CASE t = "YYYY" -> Digits2(a[1] \div 100) \o Digits2(a[1])
      [] t = "MM"   -> Digits2(a[2] + 1)
      [] t = "DD"   -> Digits2(a[3])
      [] t = "HH"   -> Digits2(a[4])
      [] t = "mm"   -> Digits2(a[5])
      [] OTHER      -> <<t>>

RECURSIVE FormatTokenSeq(_, _)
FormatTokenSeq(tokens, a) ==
    IF tokens = <<>> THEN <<>>
    ELSE FormatToken(Head(tokens), a) \o FormatTokenSeq(Tail(tokens), a)

\* moment().format(pattern) for the instant with the fields a
MomentFormat(format, a) == FormatTokenSeq(Tokenize(format), a)

(***************************************************************************)
(* Program constants and the bounds of the model.                          *)
(***************************************************************************)
\* the value standing for null / undefined where the source holds a number
NONE == -1

\* DEFAULT_SETTINGS.logFormat
HHmm == <<"H", "H", ":", "m", "m">>

\* DEFAULT_SETTINGS.debounceMs
DefaultDebounceMs == 500

DEFAULT_HEADER_FORMAT == <<"Y", "Y", "Y", "Y", "-", "M", "M", "-", "D", "D">>

\* getDailyNoteSettings()?.format ?? DEFAULT_HEADER_FORMAT, read once in onload
dailyNoteFormat == DEFAULT_HEADER_FORMAT

\* "HH:MM", the example the Log Format setting's description gives
HHMM == <<"H", "H", ":", "M", "M">>

\* a logFormat that is no string (a number, say): loadSettings() copies whatever
\* data.json holds over the defaults
NotAString == <<"not a string">>

\* the values the Log Format text field stores
LogFormats == {HHmm, HHMM, <<>>}

\* moment's format() and its parser call .match on the pattern, a TypeError
\* when the pattern is a value that is no string
PatternThrows(format) == format = NotAString

\* the date and minute part of moment's default format, YYYY-MM-DDTHH:mm:ssZ
DefaultFormatToMinute ==
    DEFAULT_HEADER_FORMAT \o <<"T">> \o HHmm

\* milliseconds in a second (interval * 1000)
MsPerSecond == 1000

\* the clock advances in steps of one debounce delay, MaxTicks times at most
TickMs == DefaultDebounceMs

MaxTicks == 3

\* the values replacementInterval takes, in seconds (the slider's lower limit
\* is 1)
Intervals == {1, 2}

\* the document never grows beyond MaxLines lines
MaxLines == 3

\* wall-clock fields <<year, month (0-based), date, hour, minute>> when the
\* session starts
SessionStart == <<2024, 4, 11, 12, 30>>

\* the wall-clock fields `ms` milliseconds into the session (new Date(), moment())
FieldsAtMinute(minutes) ==
    <<SessionStart[1], SessionStart[2], SessionStart[3],
      (minutes \div 60) % 24, minutes % 60>>

ClockFields(ms) ==
    FieldsAtMinute(SessionStart[4] * 60 + SessionStart[5] + (ms \div 60000))

(***************************************************************************)
(* The classifiers and scans of TimelogPlugin.                             *)
(***************************************************************************)
NoDate == [valid |-> FALSE, value |-> 0]

\* linkMatch ? linkMatch[1] : content
LinkContent(content, linkMatch) ==
    IF linkMatch.found THEN linkMatch.inner ELSE content

DateOfContent_Forgiving(content, ms) ==
    MomentParse(BeforePipe(LinkContent(content, LinkInner(content))),
                dailyNoteFormat, FALSE, ClockFields(ms))

\* extractHeaderDate from `content` on
DateOfContent(content, ms) ==
    MomentParse(BeforePipe(LinkContent(content, LinkInner(content))),
                dailyNoteFormat, TRUE, ClockFields(ms))

\* extractHeaderDate from `trimmed` on
DateOfTrimmed(trimmed, ms) ==
    IF ~StartsWith(trimmed, <<"#">>) THEN NoDate
    ELSE DateOfContent(Trim(StripHeadingMarker(trimmed)), ms)

\* extractHeaderDate(line): [valid, value]; valid = FALSE stands for null
\* (an invalid parse carries no value)
extractHeaderDate(line, ms) == DateOfTrimmed(Trim(line), ms)

isLogHeader(line, ms) == extractHeaderDate(line, ms).valid

isNormalHeader(line) == StartsWith(line, <<"#">>)

isLoggedLine(line, logFormat, ms) ==
    MomentParse(Take(RemoveStars(StripListMarker(line)), Len(logFormat)),
                logFormat, FALSE, ClockFields(ms)).valid

isAfter_OrSame(parsed, latestDate) == parsed.value >= latestDate

\* parsed.isAfter(latestDate)
isAfter(parsed, latestDate) == parsed.value > latestDate

\* one round of findLatestDatedHeader's loop: the best line and date so far
\* after line lineNumber, which parsed as `parsed`
LatestStep(best, lineNumber, parsed) ==
    IF ~parsed.valid THEN best
    ELSE IF best.line = NONE \/ isAfter(parsed, best.date)
    THEN [line |-> lineNumber, date |-> parsed.value]
    ELSE best

\* the loop of findLatestDatedHeader from lineNumber on
RECURSIVE LatestFrom(_, _, _, _)
LatestFrom(lines, lineNumber, best, ms) ==
    IF lineNumber >= Len(lines) THEN best.line
    ELSE LatestFrom(lines, lineNumber + 1,
             LatestStep(best, lineNumber, extractHeaderDate(lines[lineNumber + 1], ms)),
             ms)

\* findLatestDatedHeader(editor): a 0-based line number, NONE for null
findLatestDatedHeader(lines, ms) ==
    LatestFrom(lines, 0, [line |-> NONE, date |-> 0], ms)

\* the loop of hasDatedHeader from lineNumber on
RECURSIVE HasDatedFrom(_, _, _)
HasDatedFrom(lines, lineNumber, ms) ==
    IF lineNumber >= Len(lines) THEN FALSE
    ELSE IF extractHeaderDate(lines[lineNumber + 1], ms).valid THEN TRUE
    ELSE HasDatedFrom(lines, lineNumber + 1, ms)

hasDatedHeader_SkipsFirst(lines, ms) == HasDatedFrom(lines, 1, ms)

hasDatedHeader(lines, ms) == HasDatedFrom(lines, 0, ms)

isWithinInterval_Seconds(st, last, ms) ==
    ~(last # NONE /\ ms - last < st.replacementInterval)

\* isWithinInterval(): TRUE when the rate limit does not block
isWithinInterval(st, last, ms) ==
    ~(last # NONE /\ ms - last < st.replacementInterval * MsPerSecond)

\* the while loop of shouldInsertLine: `while (currentLine-- > 0)`
RECURSIVE ScanAbove_NormalFirst(_, _, _)
ScanAbove_NormalFirst(lines, currentLine, ms) ==
    IF currentLine <= 0 THEN FALSE
    ELSE IF isNormalHeader(lines[currentLine]) THEN FALSE
    ELSE IF isLogHeader(lines[currentLine], ms) THEN TRUE
    ELSE ScanAbove_NormalFirst(lines, currentLine - 1, ms)

\* (lines[currentLine] is the 0-based line currentLine - 1, the one the loop
\* body reads after the decrement)
RECURSIVE ScanAbove(_, _, _)
ScanAbove(lines, currentLine, ms) ==
    IF currentLine <= 0 THEN FALSE
    ELSE IF isLogHeader(lines[currentLine], ms) THEN TRUE
    ELSE IF isNormalHeader(lines[currentLine]) THEN FALSE
    ELSE ScanAbove(lines, currentLine - 1, ms)

\* const hasList = line.trim().startsWith('*')
hasList(line) == StartsWith(Trim(line), <<"*">>)

\* const isNested = line.startsWith('\t')
isNested(line) == StartsWith(line, <<"\t">>)

\* the list-mode checks of shouldInsertLine: the check that rejects the line,
\* "scan" when none does
ListGate(line, st) ==
    IF ~st.useList THEN "scan"
    ELSE IF IndexOf(line, <<"*", "*">>) = 0 THEN "emphasis"
    ELSE IF isNested(line) THEN "nested"
    ELSE IF ~hasList(line) THEN "nolist"
    ELSE "scan"

\* the check that ends shouldInsertLine for the cursor line `line`; "raised"
\* when isLoggedLine's moment(l, logFormat) throws, which nothing catches
DecidingStage(line, st, last, ms) ==
    IF ~isWithinInterval(st, last, ms) THEN "interval"
    ELSE IF PatternThrows(st.logFormat) THEN "raised"
    ELSE IF isLoggedLine(line, st.logFormat, ms) THEN "logged"
    ELSE ListGate(line, st)

Decision(stg, lines, cur, ms) ==
    [result |-> IF stg = "scan" THEN ScanAbove(lines, cur.line, ms) ELSE FALSE,
     stage  |-> stg]

\* shouldInsertLine(editor): the result and the check that decided it
shouldInsertLine(lines, cur, st, last, ms) ==
    Decision(DecidingStage(lines[cur.line + 1], st, last, ms), lines, cur, ms)

\* moment().format(format) at the clock's ms: an empty format stands for the
\* default format (the zone offset written for UTC)
FormatNow(format, ms) ==
    IF format = <<>>
    THEN MomentFormat(DefaultFormatToMinute, ClockFields(ms))
           \o <<":">> \o Digits2((ms \div MsPerSecond) % 60)
           \o <<"+", "0", "0", ":", "0", "0">>
    ELSE MomentFormat(format, ClockFields(ms))

getFormattedLogPrefix_HeaderFallback(st, ms) ==
    IF PatternThrows(st.logFormat)
    THEN FormatNow(DEFAULT_HEADER_FORMAT, ms)
    ELSE FormatNow(st.logFormat, ms)

\* getFormattedLogPrefix(): try format(logFormat), catch format(DEFAULT_SETTINGS.logFormat)
getFormattedLogPrefix(st, ms) ==
    IF PatternThrows(st.logFormat)
    THEN FormatNow(HHmm, ms)
    ELSE FormatNow(st.logFormat, ms)

\* the text insertLogLine inserts: `**${logPrefix}**: `
LogHeader(st, ms) ==
    <<"*", "*">> \o getFormattedLogPrefix(st, ms) \o <<"*", "*", ":", " ">>

\* let offset = line.indexOf('*') + 2
InsertOffset(line) == IndexOf(line, <<"*">>) + 2

(***************************************************************************)
(* The editor (the Line Buffer).                                           *)
(***************************************************************************)
\* the editor clips a position's column to the line
ClipCh(line, ch) == IF ch < 0 THEN 0 ELSE Min(ch, Len(line))

\* editor.replaceRange(text, {line, ch}) for a text without line breaks
InsertText(lines, ln, ch, text) ==
    [lines EXCEPT ![ln + 1] =
        Take(@, ClipCh(@, ch)) \o text \o Drop(@, ClipCh(@, ch))]

\* inserting text followed by `breaks` line breaks at {line, ch}
InsertTextAndBreaks(lines, ln, ch, text, breaks) ==
    SubSeq(lines, 1, ln)
      \o << Take(lines[ln + 1], ClipCh(lines[ln + 1], ch)) \o text >>
      \o (IF breaks = 2 THEN << <<>> >> ELSE <<>>)
      \o << Drop(lines[ln + 1], ClipCh(lines[ln + 1], ch)) >>
      \o SubSeq(lines, ln + 2, Len(lines))

(***************************************************************************)
(* Lines and documents the model draws from.                               *)
(***************************************************************************)
L_empty      == <<>>
L_dash       == <<"-", " ">>
L_star       == <<"*", " ">>
L_tabStar    == <<"\t", "*", " ">>
L_spaceStar  == <<" ", " ", "*", " ">>
L_bold       == <<"*", "*">>
L_logged     == <<"-", " ", "*", "*", "1", "2", ":", "3", "0", "*", "*", ":", " ", "x">>
L_lateStar   == <<"-", " ", "n", "o", "t", "e", " ", "*", "b">>
L_digit      == <<"5", " ", "a", "p">>
L_notes      == <<"#", " ", "N">>
L_day11link  == <<"#", "#", " ", "[", "[", "2", "0", "2", "4", "-", "0", "5", "-", "1", "1", "]", "]">>
L_day12      == <<"#", "#", " ", "2", "0", "2", "4", "-", "0", "5", "-", "1", "2">>
L_day12alias == <<"#", " ", "[", "[", "2", "0", "2", "4", "-", "0", "5", "-", "1", "2", "|", "N", "]", "]">>
L_day10      == <<"#", " ", "2", "0", "2", "4", "-", "0", "5", "-", "1", "0">>
L_lenient    == <<"#", "#", " ", "2", "0", "2", "4", "-", "5", "-", "1", "1">>
L_indented   == <<" ", "#", "#", " ", "2", "0", "2", "4", "-", "0", "5", "-", "1", "1">>

\* lines a cursor line is drawn from
BodyLines ==
    {L_empty, L_dash, L_star, L_tabStar, L_spaceStar, L_bold, L_logged,
     L_lateStar, L_digit}

\* lines the lines around the cursor line are drawn from
ContextLines == {L_notes, L_day11link, L_day12, L_day10, L_indented, L_dash}

\* header lines a cursor line is drawn from as well
HeaderLines ==
    {L_notes, L_day11link, L_day12, L_day12alias, L_day10, L_lenient, L_indented}

\* lines the user types in the session specification
TypedLines == {L_star, L_lateStar}

\* documents the session specification starts from
StartDocs == { <<L_empty>>, <<L_day11link, L_empty>> }

\* all sequences of exactly n lines of the set S
RECURSIVE SeqsOfLen(_, _)
SeqsOfLen(S, n) ==
    IF n = 0 THEN { <<>> }
    ELSE {Append(q, l) : q \in SeqsOfLen(S, n - 1), l \in S}

\* all sequences of at most n lines of the set S
SeqsUpTo(S, n) == UNION {SeqsOfLen(S, k) : k \in 0..n}

(***************************************************************************)
(* The state of the plugin and of the editor it is attached to.            *)
(***************************************************************************)
VARIABLES
    doc,              \* the editor's lines
    cursor,           \* editor.getCursor(): [line, ch], 0-based
    hasActiveEditor,  \* whether getActiveEditor() finds the editor
    settings,         \* this.settings
    lastReplacement,  \* this.lastReplacement: ms, NONE while undefined
    now,              \* the clock: ms since the session started
    statusDisplay,    \* statusBarItemEl.style.display
    statusText,       \* the interval shown by statusBarItemEl's text, NONE before any
    timer,            \* the debounce timer's deadline in ms, NONE when not armed
    lastChange,       \* when the editor last raised 'editor-change', NONE before any
    notice,           \* the Notice the last handler showed, "" when none
    lastOp,           \* the handler that ran last
    stage,            \* the check that decided the last shouldInsertLine call
    inserted,         \* whether the last onEditorChange called insertLogLine
    offset            \* the offset insertLogLine computed last, NONE before any

vars == <<doc, cursor, hasActiveEditor, settings, lastReplacement, now,
          statusDisplay, statusText, timer, lastChange, notice, lastOp, stage,
          inserted, offset>>

updateStatusBar_AlwaysShown(ed, lines, st, text, ms) ==
    IF ~ed
    THEN [display |-> "none", text |-> text]
    ELSE [display |-> "", text |-> st.replacementInterval]

\* updateStatusBar(editor?): the display and the text afterwards; `ed` tells
\* whether an editor was passed or found
updateStatusBar(ed, lines, st, text, ms) ==
    IF ~ed \/ ~hasDatedHeader(lines, ms)
    THEN [display |-> "none", text |-> text]
    ELSE [display |-> "", text |-> st.replacementInterval]

\* debounce(cb, debounceMs, false) called: arms the timer unless it is armed
\* already (resetTimer = false: a pending timer keeps its deadline)
Debounced(t, st, ms) == IF t = NONE THEN ms + st.debounceMs ELSE t

\* the status bar item becomes sb
StatusBecomes(sb) == statusDisplay' = sb.display /\ statusText' = sb.text

\* what a handler that does not evaluate an edit change leaves as it was
NoEvaluation == stage' = "none" /\ inserted' = FALSE /\ offset' = NONE

\* the state onload() leaves, with the settings loadData() returned, on the
\* document `lines`; tm is the debounce timer
OnLoad(st, lines, cur, ms, tm) ==
    /\ doc = lines
    /\ cursor = cur
    /\ hasActiveEditor = TRUE
    /\ settings = st
    /\ lastReplacement = NONE
    /\ now = ms
    /\ statusDisplay = updateStatusBar(TRUE, lines, st, NONE, ms).display
    /\ statusText = updateStatusBar(TRUE, lines, st, NONE, ms).text
    /\ timer = tm
    /\ lastChange = (IF tm = NONE THEN NONE ELSE tm - st.debounceMs)
    /\ notice = ""
    /\ lastOp = "onload"
    /\ stage = "none"
    /\ inserted = FALSE
    /\ offset = NONE

LoadedSettings(interval, useList) ==
    [replacementInterval |-> interval, useList |-> useList,
     logFormat |-> HHmm, debounceMs |-> DefaultDebounceMs]

Init ==
    \E d \in StartDocs, i \in Intervals, u \in BOOLEAN :
        OnLoad(LoadedSettings(i, u), d, [line |-> Len(d) - 1, ch |-> 0], 0, NONE)

\* time passes; a due debounce timer runs before the clock moves on
Tick ==
    /\ now < MaxTicks * TickMs
    /\ timer = NONE \/ now < timer
    /\ now' = now + TickMs
    /\ lastOp' = "tick"
    /\ NoEvaluation
    /\ notice' = ""
    /\ UNCHANGED <<doc, cursor, hasActiveEditor, settings, lastReplacement,
                   statusDisplay, statusText, timer, lastChange>>

\* nothing happens until the pending debounce timer runs out
Wait ==
    /\ timer # NONE /\ now < timer
    /\ now < MaxTicks * TickMs
    /\ now' = timer
    /\ lastOp' = "wait"
    /\ NoEvaluation
    /\ notice' = ""
    /\ UNCHANGED <<doc, cursor, hasActiveEditor, settings, lastReplacement,
                   statusDisplay, statusText, timer, lastChange>>

\* the user replaces the text of the cursor line by l, the cursor ending after it
UserType(l) ==
    /\ hasActiveEditor
    /\ doc[cursor.line + 1] # l
    /\ doc' = [doc EXCEPT ![cursor.line + 1] = l]
    /\ cursor' = [line |-> cursor.line, ch |-> Len(l)]
    /\ timer' = Debounced(timer, settings, now)
    /\ lastChange' = now
    /\ lastOp' = "type"
    /\ NoEvaluation
    /\ notice' = ""
    /\ UNCHANGED <<hasActiveEditor, settings, lastReplacement, now,
                   statusDisplay, statusText>>

\* insertLogLine(editor), inserting logHeader at offset off; its own change
\* of the document arms the debounce timer, which ran out before the call
insertLogLine(logHeader, off) ==
    /\ doc' = InsertText(doc, cursor.line, off, logHeader)
    /\ cursor' = [line |-> cursor.line,
                  ch |-> ClipCh(doc'[cursor.line + 1], cursor.ch + Len(logHeader))]
    /\ lastReplacement' = now
    /\ offset' = off
    /\ timer' = Debounced(NONE, settings, now)
    /\ lastChange' = now

ActOnDecision_AlwaysRecords(r) ==
    /\ stage' = r.stage
    /\ inserted' = r.result
    /\ IF r.result
       THEN insertLogLine(LogHeader(settings, now), InsertOffset(doc[cursor.line + 1]))
       ELSE /\ timer' = NONE
            /\ offset' = NONE
            /\ lastReplacement' = now
            /\ UNCHANGED <<doc, cursor, lastChange>>

\* onEditorChange after updateStatusBar, shouldInsertLine having returned r
ActOnDecision(r) ==
    /\ stage' = r.stage
    /\ inserted' = r.result
    /\ IF r.result
       THEN insertLogLine(LogHeader(settings, now), InsertOffset(doc[cursor.line + 1]))
       ELSE /\ timer' = NONE
            /\ offset' = NONE
            /\ UNCHANGED <<doc, cursor, lastReplacement, lastChange>>

\* onEditorChange(editor, view), run by the debounce timer
EditorChange ==
    /\ timer # NONE /\ now >= timer
    /\ StatusBecomes(updateStatusBar(TRUE, doc, settings, statusText, now))
    /\ ActOnDecision(shouldInsertLine(doc, cursor, settings, lastReplacement, now))
    /\ lastOp' = "editorChange"
    /\ notice' = ""
    /\ UNCHANGED <<hasActiveEditor, settings, now>>

\* the Start Log Entry command
StartLogEntry ==
    /\ hasActiveEditor
    /\ Len(doc) + 2 <= MaxLines
    /\ doc' = InsertTextAndBreaks(doc, cursor.line, cursor.ch,
                  <<"#", "#", " ", "[", "[">>
                    \o MomentFormat(dailyNoteFormat, ClockFields(now))
                    \o <<"]", "]">>, 2)
    /\ cursor' = [line |-> cursor.line + 2, ch |-> 0]
    /\ StatusBecomes(updateStatusBar(TRUE, doc', settings, statusText, now))
    /\ timer' = Debounced(timer, settings, now)
    /\ lastChange' = now
    /\ lastOp' = "startLogEntry"
    /\ NoEvaluation
    /\ notice' = ""
    /\ UNCHANGED <<hasActiveEditor, settings, lastReplacement, now>>

JumpTo_NeverGrows(targetLine) ==
    IF targetLine = NONE
    THEN /\ notice' = "No dated headers found"
         /\ UNCHANGED <<doc, cursor, timer, lastChange>>
    ELSE /\ UNCHANGED <<doc, timer, lastChange>>
         /\ cursor' = [line |-> Min(targetLine + 1, Len(doc) - 1), ch |-> 0]
         /\ notice' = ""

JumpTo_NoNullCheck(targetLine) ==
    /\ IF targetLine + 1 >= Len(doc)
       THEN /\ Len(doc) < MaxLines
            /\ doc' = InsertTextAndBreaks(doc, targetLine,
                          Len(doc[targetLine + 1]), <<>>, 1)
            /\ timer' = Debounced(timer, settings, now)
            /\ lastChange' = now
       ELSE UNCHANGED <<doc, timer, lastChange>>
    /\ cursor' = [line |-> Min(targetLine + 1, Len(doc') - 1), ch |-> 0]
    /\ notice' = ""

\* the Jump command's editorCallback after findLatestDatedHeader returned
\* targetLine
JumpTo(targetLine) ==
    IF targetLine = NONE
    THEN /\ notice' = "No dated headers found"
         /\ UNCHANGED <<doc, cursor, timer, lastChange>>
    ELSE /\ IF targetLine + 1 >= Len(doc)
            THEN /\ Len(doc) < MaxLines
                 /\ doc' = InsertTextAndBreaks(doc, targetLine,
                               Len(doc[targetLine + 1]), <<>>, 1)
                 /\ timer' = Debounced(timer, settings, now)
                 /\ lastChange' = now
            ELSE UNCHANGED <<doc, timer, lastChange>>
         /\ cursor' = [line |-> Min(targetLine + 1, Len(doc') - 1), ch |-> 0]
         /\ notice' = ""

\* the Jump to Latest Log Header command
JumpToLatest ==
    /\ hasActiveEditor
    /\ JumpTo(findLatestDatedHeader(doc, now))
    /\ lastOp' = "jump"
    /\ NoEvaluation
    /\ UNCHANGED <<hasActiveEditor, settings, lastReplacement, now,
                   statusDisplay, statusText>>

\* a settings-tab onChange handler has stored st: saveSettings(), updateStatusBar()
SettingsChanged(st) ==
    /\ st # settings
    /\ settings' = st
    /\ StatusBecomes(updateStatusBar(hasActiveEditor, doc, st, statusText, now))
    /\ lastOp' = "settings"
    /\ NoEvaluation
    /\ notice' = ""
    /\ UNCHANGED <<doc, cursor, hasActiveEditor, lastReplacement, now, timer,
                   lastChange>>

SetReplacementInterval(v) ==
    SettingsChanged([settings EXCEPT !.replacementInterval = v])

SetUseList(v) == SettingsChanged([settings EXCEPT !.useList = v])

\* the active-leaf-change handler; `ed` tells whether the leaf now active is
\* the editor's
ActiveLeafChange(ed) ==
    /\ ed # hasActiveEditor
    /\ hasActiveEditor' = ed
    /\ StatusBecomes(updateStatusBar(ed, doc, settings, statusText, now))
    /\ lastOp' = "leafChange"
    /\ NoEvaluation
    /\ notice' = ""
    /\ UNCHANGED <<doc, cursor, settings, lastReplacement, now, timer,
                   lastChange>>

\* the Log Format text field's onChange
SetLogFormat(v) == SettingsChanged([settings EXCEPT !.logFormat = v])

\* insertLogLine(editor) called on its own, on a document that has no prefix
\* inserted yet
InsertLogLineCall ==
    /\ hasActiveEditor
    /\ lastReplacement = NONE
    /\ insertLogLine(LogHeader(settings, now), InsertOffset(doc[cursor.line + 1]))
    /\ lastOp' = "insertLogLine"
    /\ stage' = "none"
    /\ inserted' = TRUE
    /\ notice' = ""
    /\ UNCHANGED <<hasActiveEditor, settings, now, statusDisplay, statusText>>

Next ==
    \/ Tick
    \/ \E l \in TypedLines : UserType(l)
    \/ EditorChange
    \/ StartLogEntry
    \/ JumpToLatest
    \/ \E v \in Intervals : SetReplacementInterval(v)
    \/ \E v \in BOOLEAN : SetUseList(v)
    \/ \E ed \in BOOLEAN : ActiveLeafChange(ed)

\* a working session: the plugin loaded on a document, the user typing,
\* running commands and changing settings while time passes
Spec == Init /\ [][Next]_vars

\* one edit-change evaluation and the commands, on every document of at most
\* MaxLines lines drawn from the sample lines with at most one line below the
\* cursor line: the user has just edited the cursor line and the debounce
\* timer has run out
InitFn ==
    \E above \in SeqsUpTo(ContextLines, MaxLines - 1),
       below \in SeqsUpTo(ContextLines, 1),
       l \in BodyLines \cup HeaderLines, u \in BOOLEAN :
        /\ Len(above) + 1 + Len(below) <= MaxLines
        /\ OnLoad(LoadedSettings(1, u), above \o <<l>> \o below,
                  [line |-> Len(above), ch |-> Len(l)],
                  DefaultDebounceMs, DefaultDebounceMs)

NextFn ==
    \/ EditorChange
    \/ StartLogEntry
    \/ JumpToLatest

SpecFn == InitFn /\ [][NextFn]_vars

\* the configurations: the plugin loaded with each logFormat, data.json's
\* included, on a two-line document whose second line the user has just
\* edited
InitCfg ==
    \E above \in {L_day11link, L_notes}, l \in BodyLines \cup HeaderLines,
       f \in LogFormats \cup {NotAString}, u \in BOOLEAN :
        OnLoad([LoadedSettings(1, u) EXCEPT !.logFormat = f], <<above, l>>,
               [line |-> 1, ch |-> Len(l)], DefaultDebounceMs, DefaultDebounceMs)

NextCfg ==
    \/ EditorChange
    \/ \E v \in LogFormats : SetLogFormat(v)
    \/ InsertLogLineCall

SpecCfg == InitCfg /\ [][NextCfg]_vars

\* typing in bursts: the plugin loaded with a debounce delay of two clock
\* steps, so that edits can follow each other within the delay
InitBurst ==
    \E d \in StartDocs, i \in Intervals, u \in BOOLEAN :
        OnLoad([LoadedSettings(i, u) EXCEPT !.debounceMs = 2 * TickMs], d,
               [line |-> Len(d) - 1, ch |-> 0], 0, NONE)

NextBurst ==
    \/ Tick
    \/ \E l \in TypedLines : UserType(l)
    \/ EditorChange

SpecBurst == InitBurst /\ [][NextBurst]_vars

\* the plugin left alone: the user has made one edit to the cursor line of a
\* two-line document and makes no other, under each replacementInterval and
\* a debounce delay of one or two clock steps
InitLoop ==
    \E above \in ContextLines, l \in BodyLines \cup HeaderLines,
       i \in Intervals, u \in BOOLEAN, d \in {TickMs, 2 * TickMs} :
        OnLoad([LoadedSettings(i, u) EXCEPT !.debounceMs = d], <<above, l>>,
               [line |-> 1, ch |-> Len(l)], 0, d)

NextLoop ==
    \/ Wait
    \/ EditorChange

SpecLoop == InitLoop /\ [][NextLoop]_vars

\* The plugin loaded on every document of up to MaxLines header and empty
\* lines, no edit pending; the user runs the Jump command and switches
\* between the editor's leaf and another.
InitJump ==
    \E d \in SeqsUpTo(HeaderLines \cup {L_empty}, MaxLines) \ { <<>> } :
        OnLoad(LoadedSettings(1, FALSE), d, [line |-> 0, ch |-> 0], 0, NONE)

NextJump ==
    \/ JumpToLatest
    \/ \E ed \in BOOLEAN : ActiveLeafChange(ed)

SpecJump == InitJump /\ [][NextJump]_vars

(***************************************************************************)
(* Properties.                                                             *)
(***************************************************************************)
\* the cursor line
CursorLine == doc[cursor.line + 1]

\* the 0-based indices of the dated headers of the document
DatedLines == {i \in 0..(Len(doc) - 1) : extractHeaderDate(doc[i + 1], now).valid}

DateAt(i) == extractHeaderDate(doc[i + 1], now).value

\* a header: a dated header or a normal header
IsHeaderLine(line) == isLogHeader(line, now) \/ isNormalHeader(line)

\* scanning up from the line above 0-based line c, the first header met is dated
NearestHeaderIsDated(lines, c) ==
    \E j \in 0..(c - 1) :
        /\ isLogHeader(lines[j + 1], now)
        /\ \A k \in (j + 1)..(c - 1) : ~IsHeaderLine(lines[k + 1])

\* the rate limit applies: lastReplacement is set and less than
\* replacementInterval seconds have passed since
RateLimited ==
    /\ lastReplacement # NONE
    /\ now - lastReplacement < settings.replacementInterval * 1000

\* C1: an edit-change evaluation made while the rate limit applies inserts
\* nothing (document and lastReplacement stay as they are), so an insertion
\* that follows an earlier one comes at least replacementInterval seconds
\* after it; and when the rate limit does not apply, the rate-limit check is
\* not the check that ends the evaluation.
C1_RateLimit ==
    [][lastOp' = "editorChange" =>
        /\ RateLimited =>
              (~inserted' /\ doc' = doc /\ lastReplacement' = lastReplacement)
        /\ (inserted' /\ lastReplacement # NONE) =>
              lastReplacement' - lastReplacement
                  >= settings.replacementInterval * 1000
        /\ ~RateLimited => stage' # "interval"]_vars

\* an evaluation was ended by the rate limit on a line that is not logged and
\* lies under a dated header
C1_Witness ==
    /\ lastOp = "editorChange"
    /\ stage = "interval"
    /\ ~isLoggedLine(CursorLine, settings.logFormat, now)
    /\ NearestHeaderIsDated(doc, cursor.line)

\* C2: an evaluation that passed the rate-limit, already-logged and list-mode
\* checks inserts exactly when, scanning up from the line above the cursor,
\* the first header met is a dated header (so never with the cursor on line 0,
\* with no header above, or with a non-dated header met first).
C2_AncestryScan ==
    (lastOp = "editorChange" /\ stage = "scan") =>
        (inserted <=> NearestHeaderIsDated(doc, cursor.line))

\* the scan was vetoed by a non-dated header although a dated header lies
\* further up
C2_Witness ==
    /\ lastOp = "editorChange"
    /\ stage = "scan"
    /\ ~inserted
    /\ \E j \in 0..(cursor.line - 1) : isLogHeader(doc[j + 1], now)

\* C3: the line insertLogLine has just inserted a prefix into is a logged line
\* (so no later evaluation on it inserts again).
C3_NoSecondPrefix ==
    (lastOp = "editorChange" /\ inserted) =>
        isLoggedLine(CursorLine, settings.logFormat, now)

\* the offset the claim states for a line
C4_StatedOffset(line) ==
    IF IndexOf(line, <<"*">>) < 0 THEN 0 ELSE IndexOf(line, <<"*">>) + 2

\* C4: the offset insertLogLine computes is 0 for a line without `*` and the
\* index of the first `*` plus 2 otherwise.
C4_InsertionOffset ==
    [][(lastOp' = "editorChange" /\ inserted') =>
          offset' = C4_StatedOffset(CursorLine)]_vars

\* the trimmed line starts with a list marker, `*` or `-`
StartsWithListMarker(line) ==
    StartsWith(Trim(line), <<"*">>) \/ StartsWith(Trim(line), <<"-">>)

\* C5: in list mode the list-marker check rejects the cursor line only when
\* its trimmed content starts with neither `*` nor `-`, and a non-indented,
\* not yet logged line starting with `-` under a dated header, evaluated while
\* the rate limit does not apply, gets the prefix.
C5_ListMarkers ==
    [][(lastOp' = "editorChange" /\ settings.useList) =>
          /\ stage' = "nolist" => ~StartsWithListMarker(CursorLine)
          /\ ( /\ StartsWith(CursorLine, <<"-">>)
               /\ ~isLoggedLine(CursorLine, settings.logFormat, now)
               /\ NearestHeaderIsDated(doc, cursor.line)
               /\ ~RateLimited ) => inserted']_vars

\* C6: in list mode no indented cursor line (leading tab or space) gets the
\* prefix.
C6_NoNestedPrefix ==
    [][(lastOp' = "editorChange" /\ settings.useList
          /\ Len(CursorLine) > 0 /\ CursorLine[1] \in Whitespace) =>
          ~inserted']_vars

\* what extractHeaderDate returns for each line of the document
HeaderDates ==
    [i \in 0..(Len(doc) - 1) |-> extractHeaderDate(doc[i + 1], now)]

\* d being the lines' dates: h is null when no line is a dated header, and
\* otherwise the smallest index among the dated headers whose date is the
\* greatest
IsLatestOf(h, d) ==
    IF \A i \in DOMAIN d : ~d[i].valid
    THEN h = NONE
    ELSE /\ h \in DOMAIN d
         /\ d[h].valid
         /\ \A j \in DOMAIN d :
               d[j].valid =>
                  /\ d[j].value <= d[h].value
                  /\ d[j].value = d[h].value => h <= j

\* C7: findLatestDatedHeader returns null exactly for a document without a
\* dated header, and otherwise the smallest index among the dated headers
\* whose date is the greatest.
C7_LatestHeader == IsLatestOf(findLatestDatedHeader(doc, now), HeaderDates)

\* the Jump command ran on three dated headers, the greatest date shared by
\* two of them and a header with a smaller date before them
C7_Witness ==
    /\ lastOp = "jump"
    /\ Cardinality(DatedLines) = 3
    /\ \E i, j, k \in DatedLines :
          /\ i < j /\ j < k
          /\ DateAt(i) < DateAt(j) /\ DateAt(j) = DateAt(k)
          /\ cursor = [line |-> j + 1, ch |-> 0]

\* the Jump command's step when h is the line findLatestDatedHeader returns
JumpedBelow(h) ==
    /\ cursor' = [line |-> h + 1, ch |-> 0]
    /\ h + 1 < Len(doc')
    /\ doc'[h + 1] = doc[h + 1]
    /\ IF h = Len(doc) - 1 THEN doc' = Append(doc, <<>>) ELSE doc' = doc

\* C8: the Jump command on a document with a dated header leaves the cursor at
\* column 0 of line h + 1, h the line findLatestDatedHeader returns; that line
\* exists; line h holds the same text; one empty line was added after h
\* exactly when h was the last line; nothing else of the document changed.
C8_JumpBelowHeader ==
    [][(lastOp' = "jump" /\ DatedLines # {}) =>
          JumpedBelow(findLatestDatedHeader(doc, now))]_vars

\* the Jump command ran, the latest dated header is the line before the last
\* line, which is empty and holds the cursor
C8_Witness ==
    /\ lastOp = "jump"
    /\ notice = ""
    /\ cursor = [line |-> Len(doc) - 1, ch |-> 0]
    /\ CursorLine = <<>>
    /\ findLatestDatedHeader(doc, now) = Len(doc) - 2

\* C9: the Jump command on a document without a dated header shows the notice
\* and changes neither the document nor the cursor nor lastReplacement.
C9_JumpMiss ==
    [][(lastOp' = "jump" /\ DatedLines = {}) =>
          /\ notice' = "No dated headers found"
          /\ doc' = doc
          /\ cursor' = cursor
          /\ lastReplacement' = lastReplacement]_vars

\* the Jump command found no dated header, the cursor being off the first line
C9_Witness ==
    /\ lastOp = "jump"
    /\ notice = "No dated headers found"
    /\ cursor.line > 0

\* the handlers that recompute the status bar item
Recomputing == {"onload", "editorChange", "leafChange", "settings", "startLogEntry"}

\* C10: after a handler that recomputes the status bar item, the item is
\* shown exactly when there is a current editor whose document holds a dated
\* header (onEditorChange and Start Log Entry pass the editor), and when shown
\* its text gives the configured replacementInterval.
C10_StatusBar ==
    lastOp \in Recomputing =>
        /\ statusDisplay = "" <=>
              ( /\ hasActiveEditor \/ lastOp \in {"editorChange", "startLogEntry"}
                /\ DatedLines # {} )
        /\ statusDisplay = "" => statusText = settings.replacementInterval

\* a settings change left the item shown with the new interval
C10_Witness ==
    /\ lastOp = "settings"
    /\ statusDisplay = ""
    /\ statusText = settings.replacementInterval
    /\ DatedLines # {}

\* C11: lastReplacement changes only in an edit-change evaluation that
\* inserts, which sets it to the current instant; every other step leaves it
\* as it is, and once set it is never cleared or moved backwards.
C11_LastReplacementFrame ==
    [][/\ (lastOp' = "editorChange" /\ inserted') => lastReplacement' = now'
       /\ ~(lastOp' = "editorChange" /\ inserted')
             => lastReplacement' = lastReplacement
       /\ lastReplacement # NONE =>
             (lastReplacement' # NONE /\ lastReplacement' >= lastReplacement)]_vars

\* lastReplacement was set earlier and an evaluation at a later instant has
\* just ended without inserting
C11_Witness ==
    /\ lastOp = "editorChange"
    /\ ~inserted
    /\ lastReplacement # NONE
    /\ lastReplacement < now

\* `**HH:mm**: ` written for the clock's hour and minute
DefaultLogHeader ==
    <<"*", "*">> \o Digits2(ClockFields(now)[4]) \o <<":">>
      \o Digits2(ClockFields(now)[5]) \o <<"*", "*", ":", " ">>

\* the step put `text` into the cursor line at column `at`, the rest of the
\* document as it was
InsertedAt(text, at) ==
    /\ Len(doc') = Len(doc)
    /\ \A i \in 1..Len(doc) : i # cursor.line + 1 => doc'[i] = doc[i]
    /\ doc'[cursor.line + 1] =
          SubSeq(doc[cursor.line + 1], 1, at) \o text
            \o SubSeq(doc[cursor.line + 1], at + 1, Len(doc[cursor.line + 1]))

\* C12: when formatting with the configured logFormat fails, insertLogLine
\* still completes: it inserts `**<now as HH:mm>**: ` into the cursor line,
\* moves the cursor on that line, records lastReplacement, and leaves the
\* settings (logFormat included) as they are.
C12_FormatFallback ==
    [][(lastOp' = "insertLogLine" /\ PatternThrows(settings.logFormat)) =>
          /\ offset' \in 0..Len(doc[cursor.line + 1])
               => InsertedAt(DefaultLogHeader, offset')
          /\ offset' > Len(doc[cursor.line + 1])
               => InsertedAt(DefaultLogHeader, Len(doc[cursor.line + 1]))
          /\ cursor'.line = cursor.line
          /\ cursor'.ch = cursor.ch + Len(DefaultLogHeader)
          /\ lastReplacement' = now
          /\ settings' = settings]_vars

\* insertLogLine has run with a logFormat that format() throws on, and the
\* cursor line holds the HH:mm prefix
C12_Witness ==
    /\ lastOp = "insertLogLine"
    /\ PatternThrows(settings.logFormat)
    /\ lastReplacement = now
    /\ IndexOf(CursorLine, DefaultLogHeader) >= 0

\* C13: every line extractHeaderDate gives a date for is a normal header.
C13_DatedIsNormal ==
    \A i \in 1..Len(doc) :
        extractHeaderDate(doc[i], now).valid => isNormalHeader(doc[i])

\* the segment of a line: trimmed, leading `#`s and the whitespace after them
\* stripped, the inner text of the first [[...]] span if there is one, cut
\* before the first `|`
SegmentOfContent(content) == BeforePipe(LinkContent(content, LinkInner(content)))

HeaderSegment(line) == SegmentOfContent(Trim(StripHeadingMarker(Trim(line))))

TwoDigits(s, i) == DigitVal(s[i]) * 10 + DigitVal(s[i + 1])

\* s is YYYY-MM-DD written out in full for a day of the calendar
IsFullDate(s) ==
    /\ Len(s) = 10
    /\ \A i \in {1, 2, 3, 4, 6, 7, 9, 10} : s[i] \in DigitSet
    /\ s[5] = "-" /\ s[8] = "-"
    /\ TwoDigits(s, 6) \in 1..12
    /\ TwoDigits(s, 9) \in
          1..DaysInMonth(TwoDigits(s, 1) * 100 + TwoDigits(s, 3),
                         TwoDigits(s, 6) - 1)

\* the instant of midnight of the day s writes
FullDateValue(s) ==
    InstantValue(<<TwoDigits(s, 1) * 100 + TwoDigits(s, 3), TwoDigits(s, 6) - 1,
                   TwoDigits(s, 9), 0, 0>>)

\* d is the date of the full date seg of a header line, and null otherwise
DateIsOfSegment(d, isHeader, seg) ==
    /\ d.valid <=> (isHeader /\ IsFullDate(seg))
    /\ d.valid => d.value = FullDateValue(seg)

\* C14: for a header line (trimmed, it starts with `#`) extractHeaderDate
\* gives a date exactly when the line's segment is YYYY-MM-DD written out in
\* full, and the date is that day; for any other line it gives null (so a
\* linked and aliased date gives the date the plain one gives, and a date
\* lacking a zero gives null).
C14_StrictHeaderDate ==
    /\ \A i \in 1..Len(doc) :
          DateIsOfSegment(extractHeaderDate(doc[i], now),
                          StartsWith(Trim(doc[i]), <<"#">>),
                          HeaderSegment(doc[i]))

\* an evaluation showed the status bar item for a document whose only dated
\* header is a linked and aliased one
C14_Witness ==
    /\ lastOp = "editorChange"
    /\ doc = <<L_notes, L_day12alias>>
    /\ statusDisplay = ""

\* instants T: [year, month from 0, day, hour, minute]
Instants == {<<2024, 4, 11, 12, 30>>, <<2024, 0, 1, 0, 0>>, <<2023, 11, 31, 23, 59>>}

\* "- **" + format(T, P) + "**: rest"
StampedLine(P, T) ==
    <<"-", " ", "*", "*">> \o MomentFormat(P, T)
      \o <<"*", "*", ":", " ", "r", "e", "s", "t">>

PlainBullet == <<"-", " ", "p", "l", "a", "i", "n", " ", "b", "u", "l", "l", "e", "t">>

\* C15: for the configured pattern P, a string that is not empty (format()
\* writes its default format for an empty one), and every instant T whose
\* formatted text is as long as P, the line "- **" + format(T, P) + "**: rest"
\* is a logged line; "- plain bullet" is not.
C15_RoundTrip ==
    (~PatternThrows(settings.logFormat) /\ settings.logFormat # <<>>) =>
        /\ \A T \in Instants :
              Len(MomentFormat(settings.logFormat, T)) = Len(settings.logFormat)
                 => isLoggedLine(StampedLine(settings.logFormat, T),
                                 settings.logFormat, now)
        /\ ~isLoggedLine(PlainBullet, settings.logFormat, now)

\* the candidate prefix of a line under the pattern P matches P exactly and
\* entirely
CandidateMatchesStrictly(line, P) ==
    MomentParse(Take(RemoveStars(StripListMarker(line)), Len(P)), P, TRUE,
                ClockFields(now)).valid

\* C16: an evaluation is ended by the already-logged check only for a cursor
\* line whose candidate prefix matches the configured pattern exactly and
\* entirely (a line that matches only in part stays eligible).
C16_StrictLogged ==
    [][(lastOp' = "editorChange" /\ stage' = "logged") =>
          CandidateMatchesStrictly(CursorLine, settings.logFormat)]_vars

\* a malformed logFormat: empty, or one the date library cannot handle
MalformedLogFormat == settings.logFormat = <<>> \/ PatternThrows(settings.logFormat)

\* C17: with a malformed logFormat an edit-change evaluation never raises and
\* isLoggedLine matches no line: the evaluation is not ended by an exception
\* nor by the already-logged check.  (The header pattern is not a setting of
\* the plugin; it is read from the daily-notes settings.)
C17_MalformedNeverRaises ==
    [][(lastOp' = "editorChange" /\ MalformedLogFormat) =>
          (stage' # "raised" /\ stage' # "logged")]_vars

\* C18: after the Start Log Entry command the line holding the inserted
\* header text (two lines above the cursor) is a dated header, the scan up
\* from the cursor line meets it first, and the status bar item is shown.
C18_StartLogEntrySection ==
    lastOp = "startLogEntry" =>
        /\ cursor.line >= 2
        /\ extractHeaderDate(doc[cursor.line - 1], now).valid
        /\ NearestHeaderIsDated(doc, cursor.line)
        /\ statusDisplay = ""

\* C19: edits that follow each other within the debounce delay are
\* evaluated once, after the last of them: an edit made less than debounceMs
\* after the previous edit-change notification finds the evaluation still
\* pending, and an evaluation runs only once debounceMs have passed since the
\* latest notification.
C19_BurstCoalesced ==
    [][/\ ( /\ lastOp' = "type"
            /\ lastChange # NONE
            /\ now - lastChange < settings.debounceMs ) => timer # NONE
       /\ lastOp' = "editorChange"
            => now - lastChange >= settings.debounceMs]_vars

\* C20: an insertion leaves the cursor on its line at the column it had plus
\* the length of the inserted text, and what stood right of the cursor before
\* stands right of it afterwards.
C20_CursorKeepsPlace ==
    [][(lastOp' = "editorChange" /\ inserted') =>
          /\ cursor'.line = cursor.line
          /\ cursor'.ch = cursor.ch + Len(LogHeader(settings, now))
          /\ Drop(doc'[cursor.line + 1], cursor'.ch)
                = Drop(doc[cursor.line + 1], cursor.ch)]_vars

\* C21: an insertion changes only the cursor line, which becomes the old line
\* with `**<timestamp>**: ` put in at the computed offset, every character of
\* the old line kept in its order; the other lines and the line count stay.
C21_OnlyCursorLine ==
    [][(lastOp' = "editorChange" /\ inserted') =>
          /\ offset' \in 0..Len(doc[cursor.line + 1])
          /\ InsertedAt(LogHeader(settings, now), offset')]_vars

\* C22: with no further user edit, an evaluation that follows an insertion
\* (the one the insertion's own change of the document brings about) inserts
\* nothing.
C22_NoInsertionLoop ==
    [][(lastOp' = "editorChange" /\ lastReplacement # NONE) => ~inserted']_vars

\* C23: no prefix is inserted into a cursor line that is itself a header,
\* dated or not.
C23_NoPrefixInHeader ==
    [][(lastOp' = "editorChange" /\ IsHeaderLine(CursorLine)) => ~inserted']_vars

\* C24: the offset insertLogLine inserts at lies within the cursor line.
C24_OffsetInLine ==
    [][(lastOp' = "editorChange" /\ inserted') =>
          (0 <= offset' /\ offset' <= Len(CursorLine))]_vars

\* C25: on every document hasDatedHeader is true exactly when
\* findLatestDatedHeader is not null, and the Jump command finds a target (it
\* shows no notice) exactly on the documents for which updateStatusBar with
\* an editor shows the status bar item.
C25_StatusAgreesWithJump ==
    /\ hasDatedHeader(doc, now) <=> findLatestDatedHeader(doc, now) # NONE
    /\ lastOp = "jump" =>
          ( notice = ""
              <=> updateStatusBar(TRUE, doc, settings, statusText, now).display = "" )

\* the Jump command found its target in a document whose only dated header
\* is the first line, the status bar item being shown
C25_Witness ==
    /\ lastOp = "jump"
    /\ notice = ""
    /\ statusDisplay = ""
    /\ findLatestDatedHeader(doc, now) = 0
    /\ ~HasDatedFrom(doc, 1, now)

=============================================================================
